---- MODULE Spec2Model ----
(***************************************************************************)
(* The concurrent dispatch core of go-test-task (src/main.go, lines 1-260, *)
(* the variant with a quit channel): the admission gate HandleConnection, *)
(* the request handler Handle, the dispatcher QueryUrls with its workers,  *)
(* and main's shutdown sequence.  The early variant of the same file       *)
(* (lines 262-436, without quit and shutdown) has a section of its own.    *)
(*                                                                         *)
(* Every goroutine is a small program counter; every channel is a         *)
(* sequence (or, for the token channel limiter, a count) with its          *)
(* capacity; a select is one action per ready case, so that a select with  *)
(* several ready cases is a nondeterministic choice, as in Go.             *)
(***************************************************************************)
EXTENDS Naturals, Sequences, FiniteSets

\* ------------------------------------------------------------ constants

\* const MaxUrlCount (main.go:19)
MaxUrlCount == 20

\* http status codes written by the handlers
StatusOK == 200
StatusBadRequest == 400
StatusMethodNotAllowed == 405
StatusInternalServerError == 500

\* ---------------------------------------------------------------- bounds

\* const MaxSimultaneousClients (main.go:23) is 100 in the source; the model
\* scales it down so that a handful of clients saturates the gate
MaxSimultaneousClients == 1
\* const MaxSimultaneousUrlRequests (main.go:25) is 4 in the source; the model
\* scales it down so that a short url list has more urls than workers
MaxSimultaneousUrlRequests == 2
\* number of client connections the model lets arrive
NumClients == 2
\* longest accepted url list of the single-request specification
MaxUrls == 3

Clients == 1..NumClients
WorkerIds == 1..MaxSimultaneousUrlRequests

\* the url strings clients send; a list longer than the pool repeats urls
UrlPool == <<"a", "b", "c">>
UrlList(n) == [k \in 1..n |-> UrlPool[((k - 1) % Len(UrlPool)) + 1]]

\* ------------------------------------------------------------ data types

\* a Go error value: nil, or an error with its message (Error())
NilError == [isNil |-> TRUE, msg |-> <<>>]
GetError(url) == [isNil |-> FALSE, msg |-> <<"Get", url, "failed">>]
ReadError(url) == [isNil |-> FALSE, msg |-> <<"read", url, "failed">>]

\* the bytes a fetch returns
NoBytes == <<>>
Body(url) == <<"body", url>>
PartialBody(url) == <<"part", url>>

\* type UrlResult (main.go:34-38)
UrlResult(url, response, err) == [Url |-> url, Response |-> response, error |-> err]
NoResult == UrlResult("", NoBytes, NilError)

\* ResultToUser{} (main.go:41-44, 132): Error "" and Responses nil.  A nil
\* slice is the empty sequence: the code never builds an empty non-nil one.
EmptyString == <<>>
NilResponses == <<>>
ResultToUser(err, responses) == [Error |-> err, Responses |-> responses]
ZeroResultToUser == ResultToUser(EmptyString, NilResponses)

\* what has been written to a client's ResponseWriter
NoResponse == [status |-> 0, kind |-> "none", json |-> ZeroResultToUser]
TextResponse(code) == [status |-> code, kind |-> "text", json |-> ZeroResultToUser]
JsonResponse(res) == [status |-> StatusOK, kind |-> "json", json |-> res]

\* a client's request as Handle sees it: the method, whether the body can be
\* read, whether it is json, and the decoded url list
Request(method, readable, wellFormed, urls) ==
    [method |-> method, readable |-> readable, wellFormed |-> wellFormed, urls |-> urls]
Post(urls) == Request("POST", TRUE, TRUE, urls)
NoRequest == Request("", FALSE, FALSE, <<>>)

\* the requests that are rejected before any work starts
BadRequests ==
    { Request("GET", TRUE, TRUE, <<"a">>),
      Request("POST", FALSE, TRUE, <<>>),
      Request("POST", TRUE, FALSE, <<>>),
      Post(UrlList(MaxUrlCount + 1)) }

\* requests of the gate specification (several clients, short lists)
GateRequests == { Post(<<>>), Post(<<"a">>), Post(UrlList(MaxUrlCount + 1)) }
\* requests of the single-request specification
OneRequests == { Post(UrlList(n)) : n \in 0..MaxUrls } \cup { Post(<<"a", "a">>) } \cup BadRequests

\* ------------------------------------------------------------- variables

VARIABLES
    mainpc,      \* main: "serving", "shutdown", "draining", "stopped"
    shutdown,    \* main's quit channel (HandleConnection's shutdown): "open", "closed", "panic"
    limiter,     \* HandleConnection: number of tokens in the limiter channel
    gate,        \* per client: "idle", "select", "admitted", "rejected", "done"
    req,         \* per client: the request it sent
    resp,        \* per client: what was written to its ResponseWriter
    connClosed,  \* per client: the CloseNotify channel holds a notification
    hpc,         \* per client, Handle: "none", "begin", "loop", "wait", "returned"
    results,     \* per client, Handle: results
    needToSend,  \* per client, Handle: needToSend
    iter,        \* per client, Handle: the loop counter i
    quit,        \* per client, Handle: the quit channel: "open", "closed", "panic"
    pipeline,    \* per client, Handle: the buffered channel pipeline
    qpc,         \* per client, QueryUrls: "none", "spawn", "fill", "close", "wait", "done"
    tasks,       \* per client, QueryUrls: the buffered channel tasks
    tasksClosed, \* per client, QueryUrls: tasks is closed
    queued,      \* per client, QueryUrls: urls put on tasks so far
    workers,     \* per client, QueryUrls: worker goroutines, [pc, task, result]
    fetches,     \* per client, history: fetches started, the errors of those that failed,
                 \* and how many had started when the first one failed
    slots        \* per client, history: limiter tokens acquired and released

mainVars == <<mainpc, shutdown>>
gateVars == <<limiter, gate, req, resp, connClosed, slots>>
handleVars == <<hpc, results, needToSend, iter, quit, pipeline>>
queryVars == <<qpc, tasks, tasksClosed, queued, workers, fetches>>
vars == <<mainVars, gateVars, handleVars, queryVars>>

\* a worker goroutine: "none" (not spawned), "select", "fetch", "send", "exit"
Worker(pc, task, result) == [pc |-> pc, task |-> task, result |-> result]
NoWorker == Worker("none", "", NoResult)

\* the process is alive: after main returns every goroutine is gone
Running == mainpc # "stopped"

\* ------------------------------------------------------------------ Init

Init ==
    /\ mainpc = "serving"
    /\ shutdown = "open"
    /\ limiter = 0
    /\ gate = [c \in Clients |-> "idle"]
    /\ req = [c \in Clients |-> NoRequest]
    /\ resp = [c \in Clients |-> NoResponse]
    /\ connClosed = [c \in Clients |-> FALSE]
    /\ hpc = [c \in Clients |-> "none"]
    /\ results = [c \in Clients |-> ZeroResultToUser]
    /\ needToSend = [c \in Clients |-> TRUE]
    /\ iter = [c \in Clients |-> 0]
    /\ quit = [c \in Clients |-> "open"]
    /\ pipeline = [c \in Clients |-> <<>>]
    /\ qpc = [c \in Clients |-> "none"]
    /\ tasks = [c \in Clients |-> <<>>]
    /\ tasksClosed = [c \in Clients |-> FALSE]
    /\ queued = [c \in Clients |-> 0]
    /\ workers = [c \in Clients |-> [w \in WorkerIds |-> NoWorker]]
    /\ fetches = [c \in Clients |-> [started |-> 0, failed |-> <<>>, before |-> 0]]
    /\ slots = [c \in Clients |-> [acquired |-> 0, released |-> 0]]

\* --------------------------------------------------------------- channels

\* close(ch) on a channel used only as a broadcast signal; a second close panics
Close(ch) == IF ch = "open" THEN "closed" ELSE "panic"
\* a receive from a signal channel is ready once it is closed
Closed(ch) == ch # "open"

\* ------------------------------------------------------- HandleConnection

\* the server accepts a connection and starts serving the client's request
Arrive(c, r) ==
    /\ mainpc \in {"serving", "shutdown"}
    /\ gate[c] = "idle"
    /\ gate' = [gate EXCEPT ![c] = "select"]
    /\ req' = [req EXCEPT ![c] = r]
    /\ UNCHANGED <<mainVars, limiter, resp, connClosed, slots, handleVars, queryVars>>

\* select case <-shutdown (main.go:207-210)
GateReject(c) ==
    /\ Running
    /\ gate[c] = "select"
    /\ Closed(shutdown)
    /\ resp' = [resp EXCEPT ![c] = TextResponse(StatusInternalServerError)]
    /\ gate' = [gate EXCEPT ![c] = "rejected"]
    /\ UNCHANGED <<mainVars, limiter, req, connClosed, slots, handleVars, queryVars>>

\* the send is ready with the buffer already full
LimiterHasRoomOffByOne(n) == n <= MaxSimultaneousClients

\* limiter := make(chan struct{}, MaxSimultaneousClients): a send is ready
\* while the buffer has room (main.go:203, 212)
LimiterHasRoom(n) == n < MaxSimultaneousClients

\* select case limiter <- struct{}{} (main.go:212-215): the handler is entered
GateAdmit(c) ==
    /\ Running
    /\ gate[c] = "select"
    /\ LimiterHasRoom(limiter)
    /\ limiter' = limiter + 1
    /\ slots' = [slots EXCEPT ![c].acquired = @ + 1]
    /\ gate' = [gate EXCEPT ![c] = "admitted"]
    /\ hpc' = [hpc EXCEPT ![c] = "begin"]
    /\ UNCHANGED <<mainVars, req, resp, connClosed, results, needToSend, iter, quit,
                   pipeline, queryVars>>

\* the token is left in the channel
TakeTokenForgotten(n) == n

\* <-limiter takes one token out (main.go:213)
TakeToken(n) == n - 1

\* the release is not deferred: it runs before h.ServeHTTP is called
GateReleaseNotDeferred(c) ==
    /\ Running
    /\ gate[c] = "admitted"
    /\ limiter' = limiter - 1
    /\ slots' = [slots EXCEPT ![c].released = @ + 1]
    /\ gate' = [gate EXCEPT ![c] = "done"]
    /\ UNCHANGED <<mainVars, req, resp, connClosed, handleVars, queryVars>>

\* defer func() { <-limiter }() (main.go:213), run when h.ServeHTTP has returned
GateRelease(c) ==
    /\ Running
    /\ gate[c] = "admitted"
    /\ hpc[c] = "returned"
    /\ limiter' = TakeToken(limiter)
    /\ slots' = [slots EXCEPT ![c].released = @ + 1]
    /\ gate' = [gate EXCEPT ![c] = "done"]
    /\ UNCHANGED <<mainVars, req, resp, connClosed, handleVars, queryVars>>

\* ------------------------------------------------------------------ Handle

\* the limit is off by one
TooManyUrlsOffByOne(urls) == Len(urls) > MaxUrlCount + 1

\* len(request.Urls) > MaxUrlCount (main.go:127)
TooManyUrls(urls) == Len(urls) > MaxUrlCount

\* the status of the error Handle answers a request with before doing any
\* work, 0 when it accepts the request (main.go:109-130)
InputError(r) ==
    IF r.method # "POST" THEN StatusMethodNotAllowed
    ELSE IF ~r.readable THEN StatusBadRequest
    ELSE IF ~r.wellFormed THEN StatusBadRequest
    ELSE IF TooManyUrls(r.urls) THEN StatusBadRequest
    ELSE 0

\* always the maximum number of workers, however short the list
WorkersCountAlwaysMax(urls) == MaxSimultaneousUrlRequests

\* workersCount (main.go:137-140)
WorkersCount(urls) ==
    IF Len(urls) < MaxSimultaneousUrlRequests THEN Len(urls) ELSE MaxSimultaneousUrlRequests

\* make(chan UrlResult, len(request.Urls)) and make(chan string, len(urls))
\* (main.go:133, 69): a send is ready while the buffer has room
HasRoom(ch, capacity) == Len(ch) < capacity

\* the queue holds no more urls than there are workers
TasksCapWorkers(urls) == MaxSimultaneousUrlRequests

\* tasks := make(chan string, len(urls)) (main.go:69)
TasksCap(urls) == Len(urls)

\* the result channel is one place short
PipelineCapShort(urls) == Len(urls) - 1

\* pipeline := make(chan UrlResult, len(request.Urls)) (main.go:133)
PipelineCap(urls) == Len(urls)

\* where QueryUrls stands after spawning `spawned` workers and queueing `n`
\* urls (main.go:73, 97, 101)
QueryPc(urls, spawned, n) ==
    IF spawned < WorkersCount(urls) THEN "spawn"
    ELSE IF n < Len(urls) THEN "fill"
    ELSE "close"

\* the body of the loop runs once before the bound is looked at
LoopPcDoWhile(urls, i) == IF i < Len(urls) \/ i = 0 THEN "loop" ELSE "wait"

\* where Handle stands after i iterations of the loop (main.go:154)
LoopPc(urls, i) == IF i < Len(urls) THEN "loop" ELSE "wait"

\* Handle answers an unacceptable request with http.Error and returns
\* (main.go:109-130)
HandleRefuse(c) ==
    /\ Running
    /\ hpc[c] = "begin"
    /\ InputError(req[c]) # 0
    /\ resp' = [resp EXCEPT ![c] = TextResponse(InputError(req[c]))]
    /\ hpc' = [hpc EXCEPT ![c] = "returned"]
    /\ UNCHANGED <<mainVars, limiter, gate, req, connClosed, slots, results, needToSend,
                   iter, quit, pipeline, queryVars>>

\* Handle accepts the request, makes its channels, starts QueryUrls and
\* enters the collection loop (main.go:132-154)
HandleStart(c) ==
    /\ Running
    /\ hpc[c] = "begin"
    /\ InputError(req[c]) = 0
    /\ results' = [results EXCEPT ![c] = ZeroResultToUser]
    /\ pipeline' = [pipeline EXCEPT ![c] = <<>>]
    /\ quit' = [quit EXCEPT ![c] = "open"]
    /\ qpc' = [qpc EXCEPT ![c] = QueryPc(req[c].urls, 0, 0)]
    /\ needToSend' = [needToSend EXCEPT ![c] = TRUE]
    /\ iter' = [iter EXCEPT ![c] = 0]
    /\ hpc' = [hpc EXCEPT ![c] = LoopPc(req[c].urls, 0)]
    /\ UNCHANGED <<mainVars, gateVars, tasks, tasksClosed, queued, workers, fetches>>

\* the client goes away while Handle is in its loop: the CloseNotify channel
\* gets its notification (main.go:150).  A client that left earlier is seen
\* only through this channel, so its leaving is modelled here.
ClientDisconnect(c) ==
    /\ Running
    /\ hpc[c] = "loop"
    /\ ~connClosed[c]
    /\ connClosed' = [connClosed EXCEPT ![c] = TRUE]
    /\ UNCHANGED <<mainVars, limiter, gate, req, resp, slots, handleVars, queryVars>>

\* a plain break leaves the select only: the loop goes on to its next iteration
BreakSelect(urls, i) == LoopPc(urls, i + 1)

\* break Loop leaves the collection loop (main.go:161, 172)
BreakLoop(urls, i) == "wait"

\* needToSend after the disconnect case (main.go:160)
AfterDisconnect(send) == FALSE

\* select case <-connectionClose (main.go:156-161)
HandleDisconnect(c) ==
    /\ Running
    /\ hpc[c] = "loop"
    /\ connClosed[c]
    /\ connClosed' = [connClosed EXCEPT ![c] = FALSE]
    /\ quit' = [quit EXCEPT ![c] = Close(@)]
    /\ needToSend' = [needToSend EXCEPT ![c] = AfterDisconnect(@)]
    /\ hpc' = [hpc EXCEPT ![c] = BreakLoop(req[c].urls, iter[c])]
    /\ UNCHANGED <<mainVars, limiter, gate, req, resp, slots, results, iter, pipeline,
                   queryVars>>

\* every error reads the same
ErrorTextGeneric(err) == <<"error">>

\* err.Error(): the message of an error
ErrorText(err) == err.msg

\* the outcomes collected so far are kept beside the error
OnFailureKeep(rs, res) == ResultToUser(res.error.msg, Append(rs.Responses, res))

\* results after a failed outcome (main.go:169-171)
OnFailure(rs, res) == ResultToUser(ErrorText(res.error), NilResponses)

\* the outcome replaces the ones collected so far
OnSuccessReplace(rs, res) == ResultToUser(rs.Error, <<res>>)

\* results after a successful outcome (main.go:174)
OnSuccess(rs, res) == ResultToUser(rs.Error, Append(rs.Responses, res))

\* select case res := <-pipeline (main.go:163-175)
HandleReceive(c) ==
    /\ Running
    /\ hpc[c] = "loop"
    /\ pipeline[c] # <<>>
    /\ LET res == Head(pipeline[c])
       IN  /\ pipeline' = [pipeline EXCEPT ![c] = Tail(@)]
           /\ IF ~res.error.isNil
              THEN /\ quit' = [quit EXCEPT ![c] = Close(@)]
                   /\ results' = [results EXCEPT ![c] = OnFailure(@, res)]
                   /\ hpc' = [hpc EXCEPT ![c] = BreakLoop(req[c].urls, iter[c])]
                   /\ iter' = iter
              ELSE /\ results' = [results EXCEPT ![c] = OnSuccess(@, res)]
                   /\ iter' = [iter EXCEPT ![c] = @ + 1]
                   /\ hpc' = [hpc EXCEPT ![c] = LoopPc(req[c].urls, iter[c] + 1)]
                   /\ quit' = quit
    /\ UNCHANGED <<mainVars, gateVars, needToSend, queryVars>>

\* Handle does not wait for QueryUrls
JoinedAlways(c) == TRUE

\* wait.Wait() returns once QueryUrls has run parentWg.Done (main.go:181, 68)
Joined(c) == qpc[c] = "done"

\* json.Marshal(results) (main.go:185): the unexported error field is left out
Marshal(rs) ==
    ResultToUser(rs.Error,
                 [k \in 1..Len(rs.Responses) |->
                     [url |-> rs.Responses[k].Url, response |-> rs.Responses[k].Response]])

\* needToSend is not looked at
ReplyAlways(send, rs, old) == JsonResponse(Marshal(rs))

\* what the ResponseWriter holds after main.go:183-193
Reply(send, rs, old) == IF send THEN JsonResponse(Marshal(rs)) ELSE old

\* Handle joins QueryUrls, writes the response if it has to, and returns
\* (main.go:181-195)
HandleFinish(c) ==
    /\ Running
    /\ hpc[c] = "wait"
    /\ Joined(c)
    /\ resp' = [resp EXCEPT ![c] = Reply(needToSend[c], results[c], @)]
    /\ hpc' = [hpc EXCEPT ![c] = "returned"]
    /\ UNCHANGED <<mainVars, limiter, gate, req, connClosed, slots, results, needToSend,
                   iter, quit, pipeline, queryVars>>

\* --------------------------------------------------------------- QueryUrls

Spawned(c) == Cardinality({w \in WorkerIds : workers[c][w].pc # "none"})

\* wg.Add(1); go func() {...}() (main.go:73-94)
QuerySpawn(c) ==
    /\ Running
    /\ qpc[c] = "spawn"
    /\ workers' = [workers EXCEPT ![c][Spawned(c) + 1] = Worker("select", "", NoResult)]
    /\ qpc' = [qpc EXCEPT ![c] = QueryPc(req[c].urls, Spawned(c) + 1, queued[c])]
    /\ UNCHANGED <<mainVars, gateVars, handleVars, tasks, tasksClosed, queued, fetches>>

\* tasks <- url (main.go:97-99)
QueryFill(c) ==
    /\ Running
    /\ qpc[c] = "fill"
    /\ HasRoom(tasks[c], TasksCap(req[c].urls))
    /\ tasks' = [tasks EXCEPT ![c] = Append(@, req[c].urls[queued[c] + 1])]
    /\ queued' = [queued EXCEPT ![c] = @ + 1]
    /\ qpc' = [qpc EXCEPT ![c] = QueryPc(req[c].urls, Spawned(c), queued[c] + 1)]
    /\ UNCHANGED <<mainVars, gateVars, handleVars, tasksClosed, workers, fetches>>

\* close(tasks) (main.go:101)
QueryClose(c) ==
    /\ Running
    /\ qpc[c] = "close"
    /\ tasksClosed' = [tasksClosed EXCEPT ![c] = TRUE]
    /\ qpc' = [qpc EXCEPT ![c] = "wait"]
    /\ UNCHANGED <<mainVars, gateVars, handleVars, tasks, queued, workers, fetches>>

\* wg.Wait() returns when every spawned worker has run wg.Done (main.go:103, 76)
WorkersDone(c) == \A w \in WorkerIds : workers[c][w].pc \in {"none", "exit"}

\* wg.Wait(), then the deferred parentWg.Done() (main.go:103, 68)
QueryJoin(c) ==
    /\ Running
    /\ qpc[c] = "wait"
    /\ WorkersDone(c)
    /\ qpc' = [qpc EXCEPT ![c] = "done"]
    /\ UNCHANGED <<mainVars, gateVars, handleVars, tasks, tasksClosed, queued, workers,
                   fetches>>

\* ----------------------------------------------------------------- workers

\* RequestUrl (main.go:49-59): the body, or the error of client.Get with no
\* bytes, or the error of ioutil.ReadAll with the bytes read so far
RequestUrl(url) ==
    { [bytes |-> Body(url), err |-> NilError],
      [bytes |-> NoBytes, err |-> GetError(url)],
      [bytes |-> PartialBody(url), err |-> ReadError(url)] }

\* select case task, ok := <-tasks with ok true, then RequestUrl(task) is
\* called (main.go:80, 85)
WorkerDraw(c, w) ==
    /\ Running
    /\ workers[c][w].pc = "select"
    /\ tasks[c] # <<>>
    /\ workers' = [workers EXCEPT ![c][w] = Worker("fetch", Head(tasks[c]), NoResult)]
    /\ tasks' = [tasks EXCEPT ![c] = Tail(@)]
    /\ fetches' = [fetches EXCEPT ![c].started = @ + 1]
    /\ UNCHANGED <<mainVars, gateVars, handleVars, qpc, tasksClosed, queued>>

\* select case task, ok := <-tasks with ok false (main.go:80-84)
WorkerNoTasks(c, w) ==
    /\ Running
    /\ workers[c][w].pc = "select"
    /\ tasks[c] = <<>>
    /\ tasksClosed[c]
    /\ workers' = [workers EXCEPT ![c][w] = Worker("exit", "", NoResult)]
    /\ UNCHANGED <<mainVars, gateVars, handleVars, qpc, tasks, tasksClosed, queued, fetches>>

\* select case <-quit (main.go:88-90)
WorkerQuit(c, w) ==
    /\ Running
    /\ workers[c][w].pc = "select"
    /\ Closed(quit[c])
    /\ workers' = [workers EXCEPT ![c][w] = Worker("exit", "", NoResult)]
    /\ UNCHANGED <<mainVars, gateVars, handleVars, qpc, tasks, tasksClosed, queued, fetches>>

\* RequestUrl(task) returns (main.go:85)
WorkerFetch(c, w) ==
    /\ Running
    /\ workers[c][w].pc = "fetch"
    /\ \E out \in RequestUrl(workers[c][w].task) :
          /\ workers' = [workers EXCEPT ![c][w] =
                            Worker("send", @.task, UrlResult(@.task, out.bytes, out.err))]
          /\ fetches' = IF out.err.isNil THEN fetches
                        ELSE [fetches EXCEPT ![c].failed = Append(@, out.err),
                                             ![c].before = IF fetches[c].failed = <<>>
                                                           THEN fetches[c].started ELSE @]
    /\ UNCHANGED <<mainVars, gateVars, handleVars, qpc, tasks, tasksClosed, queued>>

\* out <- UrlResult{task, result, err} (main.go:86)
WorkerSend(c, w) ==
    /\ Running
    /\ workers[c][w].pc = "send"
    /\ HasRoom(pipeline[c], PipelineCap(req[c].urls))
    /\ pipeline' = [pipeline EXCEPT ![c] = Append(@, workers[c][w].result)]
    /\ workers' = [workers EXCEPT ![c][w] = Worker("select", "", NoResult)]
    /\ UNCHANGED <<mainVars, gateVars, hpc, results, needToSend, iter, quit, qpc, tasks,
                   tasksClosed, queued, fetches>>

\* -------------------------------------------------------------------- main

\* the steps of Handle, QueryUrls and the workers that take no time to speak
\* of: everything but reading the request body (HandleRefuse, HandleStart)
\* and the network fetch (WorkerFetch)
RequestQuick(c) ==
    \/ HandleDisconnect(c)
    \/ HandleReceive(c)
    \/ HandleFinish(c)
    \/ QuerySpawn(c)
    \/ QueryFill(c)
    \/ QueryClose(c)
    \/ QueryJoin(c)
    \/ \E w \in WorkerIds : WorkerDraw(c, w) \/ WorkerNoTasks(c, w) \/ WorkerQuit(c, w)
                            \/ WorkerSend(c, w)

\* the steps that wait for the network
RequestSlow(c) ==
    \/ HandleRefuse(c)
    \/ HandleStart(c)
    \/ \E w \in WorkerIds : WorkerFetch(c, w)

\* the quick steps of the goroutine serving client c and of those it started
QuickStep(c) == GateReject(c) \/ GateAdmit(c) \/ GateRelease(c) \/ RequestQuick(c)

\* the signal also raises the quit of every request in its collection loop
MainInterruptCancels ==
    /\ mainpc = "serving"
    /\ shutdown' = Close(shutdown)
    /\ mainpc' = "shutdown"
    /\ quit' = [c \in Clients |-> IF hpc[c] = "loop" THEN "closed" ELSE quit[c]]
    /\ UNCHANGED <<gateVars, hpc, results, needToSend, iter, pipeline, queryVars>>

\* <-shutdown returns on SIGINT or SIGTERM, then close(quit) (main.go:247-251)
MainInterrupt ==
    /\ mainpc = "serving"
    /\ shutdown' = Close(shutdown)
    /\ mainpc' = "shutdown"
    /\ UNCHANGED <<gateVars, handleVars, queryVars>>

\* server.Shutdown(ctx) closes the listeners: no connection is accepted any
\* more (main.go:253-254)
ServerShutdown ==
    /\ mainpc = "shutdown"
    /\ mainpc' = "draining"
    /\ UNCHANGED <<shutdown, gateVars, handleVars, queryVars>>

\* server.Shutdown returns, when every connection is idle or when the 5 s of
\* ctx are over, and main returns: the process ends (main.go:253-260).  Five
\* seconds are long against a goroutine's step, so the deadline passes only
\* while every goroutine is blocked, reading a request body or fetching.
MainExit ==
    /\ mainpc = "draining"
    /\ \A c \in Clients : ~ENABLED QuickStep(c)
    /\ mainpc' = "stopped"
    /\ UNCHANGED <<shutdown, gateVars, handleVars, queryVars>>

\* ------------------------------------------------------- specifications

\* the goroutines serving client c
ClientStep(c) == QuickStep(c) \/ RequestSlow(c)

Main == MainInterrupt \/ ServerShutdown \/ MainExit

\* the whole server: NumClients clients with short requests, and the shutdown
Next ==
    \/ Main
    \/ \E c \in Clients : \E r \in GateRequests : Arrive(c, r)
    \/ \E c \in Clients : ClientDisconnect(c)
    \/ \E c \in Clients : ClientStep(c)

Spec == Init /\ [][Next]_vars

\* one request of any accepted size, served while no signal arrives
NextOne ==
    \/ \E r \in OneRequests : Arrive(1, r)
    \/ ClientDisconnect(1)
    \/ GateAdmit(1) \/ GateRelease(1)
    \/ RequestQuick(1) \/ RequestSlow(1)

SpecOne == Init /\ [][NextOne]_vars

\* one well-formed request with two urls more than there are workers, served
\* while no signal arrives
BatchRequests == { Post(UrlList(MaxSimultaneousUrlRequests + 2)) }

NextBatch ==
    \/ \E r \in BatchRequests : Arrive(1, r)
    \/ ClientDisconnect(1)
    \/ GateAdmit(1) \/ GateRelease(1)
    \/ RequestQuick(1)
    \/ HandleStart(1)
    \/ \E w \in WorkerIds : WorkerFetch(1, w)

SpecBatch == Init /\ [][NextBatch]_vars

\* the requests of the fair single-request specification: every list that
\* gives each worker at most one url when the urls are shared out evenly
ShortRequests == { Post(UrlList(n)) : n \in 0..MaxSimultaneousUrlRequests }

NextShort ==
    \/ \E r \in ShortRequests : Arrive(1, r)
    \/ ClientDisconnect(1)
    \/ GateAdmit(1) \/ GateRelease(1)
    \/ RequestQuick(1)
    \/ HandleStart(1)
    \/ \E w \in WorkerIds : WorkerFetch(1, w)

\* one request under fair scheduling of its goroutines, with the body read
\* and every fetch coming to an end, while no signal arrives
LiveOne ==
    Init /\ [][NextShort]_vars
         /\ WF_vars(GateAdmit(1) \/ GateRelease(1) \/ RequestQuick(1) \/ RequestSlow(1))

\* one request of a list that gives each worker at most one url, and the
\* shutdown of the server
NextSignal ==
    \/ Main
    \/ \E r \in ShortRequests : Arrive(1, r)
    \/ ClientDisconnect(1)
    \/ QuickStep(1)
    \/ HandleStart(1)
    \/ \E w \in WorkerIds : WorkerFetch(1, w)

SpecSignal == Init /\ [][NextSignal]_vars

\* the requests of the fair specification: client 1 has a url fetched, the
\* other clients send requests that need no fetch
LiveRequests(c) ==
    IF c = 1 THEN { Post(<<"a">>) } ELSE { Post(<<>>), Post(UrlList(MaxUrlCount + 1)) }

NextLive ==
    \/ Main
    \/ \E c \in Clients : \E r \in LiveRequests(c) : Arrive(c, r)
    \/ \E c \in Clients : ClientDisconnect(c)
    \/ \E c \in Clients : ClientStep(c)

\* the whole server under fair scheduling of every goroutine, with every
\* body read and every fetch coming to an end
LiveSpec == Init /\ [][NextLive]_vars /\ \A c \in Clients : WF_vars(ClientStep(c))

\* ------------------------------------------------------ the early variant

\* The variant of main.go:262-436: no quit channel and no shutdown.
\* ClientCheck is HandleConnection without the shutdown case; QueryUrls has
\* one goroutine queue the urls and starts one goroutine per url received;
\* Handle collects len(urls) outcomes and does not wait for QueryUrls.  The
\* goroutine that waits for the close notification only prints, so a client
\* that goes away changes nothing.  The variables are those of the other
\* variant; workers[c][k] is the goroutine started for the k-th url received.

\* one goroutine for every url of the longest list
EarlyIds == 1..MaxUrls

EarlyRequests == { Post(UrlList(n)) : n \in 0..MaxUrls }

InitEarly ==
    /\ mainpc = "serving"
    /\ shutdown = "open"
    /\ limiter = 0
    /\ gate = [c \in Clients |-> "idle"]
    /\ req = [c \in Clients |-> NoRequest]
    /\ resp = [c \in Clients |-> NoResponse]
    /\ connClosed = [c \in Clients |-> FALSE]
    /\ hpc = [c \in Clients |-> "none"]
    /\ results = [c \in Clients |-> ZeroResultToUser]
    /\ needToSend = [c \in Clients |-> TRUE]
    /\ iter = [c \in Clients |-> 0]
    /\ quit = [c \in Clients |-> "open"]
    /\ pipeline = [c \in Clients |-> <<>>]
    /\ qpc = [c \in Clients |-> "none"]
    /\ tasks = [c \in Clients |-> <<>>]
    /\ tasksClosed = [c \in Clients |-> FALSE]
    /\ queued = [c \in Clients |-> 0]
    /\ workers = [c \in Clients |-> [k \in EarlyIds |-> NoWorker]]
    /\ fetches = [c \in Clients |-> [started |-> 0, failed |-> <<>>, before |-> 0]]
    /\ slots = [c \in Clients |-> [acquired |-> 0, released |-> 0]]

\* limiter <- struct{}{} (main.go:418): blocks while the buffer is full
ClientCheckEnter(c) ==
    /\ gate[c] = "select"
    /\ LimiterHasRoom(limiter)
    /\ limiter' = limiter + 1
    /\ slots' = [slots EXCEPT ![c].acquired = @ + 1]
    /\ gate' = [gate EXCEPT ![c] = "admitted"]
    /\ hpc' = [hpc EXCEPT ![c] = "begin"]
    /\ UNCHANGED <<mainVars, req, resp, connClosed, results, needToSend, iter, quit,
                   pipeline, queryVars>>

\* defer func() { <-limiter }() (main.go:419), run when h.ServeHTTP has returned
ClientCheckLeave(c) ==
    /\ gate[c] = "admitted"
    /\ hpc[c] = "returned"
    /\ limiter' = TakeToken(limiter)
    /\ slots' = [slots EXCEPT ![c].released = @ + 1]
    /\ gate' = [gate EXCEPT ![c] = "done"]
    /\ UNCHANGED <<mainVars, req, resp, connClosed, handleVars, queryVars>>

\* tasks := make(chan string, MaxSimultaneousUrlRequests) (main.go:320)
EarlyTasksCap == MaxSimultaneousUrlRequests

\* where Handle stands after i iterations of its loop (main.go:388)
EarlyLoopPc(urls, i) == IF i < Len(urls) THEN "loop" ELSE "marshal"

\* Handle accepts the request, makes out and starts QueryUrls, which makes
\* tasks and starts the goroutine that queues the urls (main.go:350-388,
\* 320-329)
EarlyStart(c) ==
    /\ hpc[c] = "begin"
    /\ InputError(req[c]) = 0
    /\ results' = [results EXCEPT ![c] = ZeroResultToUser]
    /\ pipeline' = [pipeline EXCEPT ![c] = <<>>]
    /\ iter' = [iter EXCEPT ![c] = 0]
    /\ hpc' = [hpc EXCEPT ![c] = EarlyLoopPc(req[c].urls, 0)]
    /\ qpc' = [qpc EXCEPT ![c] = "range"]
    /\ UNCHANGED <<mainVars, gateVars, needToSend, quit, tasks, tasksClosed, queued,
                   workers, fetches>>

\* tasks <- url (main.go:326-328): blocks while the buffer is full
EarlyProduce(c) ==
    /\ qpc[c] # "none"
    /\ queued[c] < Len(req[c].urls)
    /\ HasRoom(tasks[c], EarlyTasksCap)
    /\ tasks' = [tasks EXCEPT ![c] = Append(@, req[c].urls[queued[c] + 1])]
    /\ queued' = [queued EXCEPT ![c] = @ + 1]
    /\ UNCHANGED <<mainVars, gateVars, handleVars, qpc, tasksClosed, workers, fetches>>

\* defer close(tasks) (main.go:324), after the last url is queued
EarlyCloseTasks(c) ==
    /\ qpc[c] # "none"
    /\ queued[c] = Len(req[c].urls)
    /\ ~tasksClosed[c]
    /\ tasksClosed' = [tasksClosed EXCEPT ![c] = TRUE]
    /\ UNCHANGED <<mainVars, gateVars, handleVars, qpc, tasks, queued, workers, fetches>>

\* for task := range tasks { wg.Add(1); go func(task string) {...}(task) }
\* (main.go:334-342): a goroutine is started for the url received and calls
\* RequestUrl(task)
EarlyDispatch(c) ==
    /\ qpc[c] = "range"
    /\ tasks[c] # <<>>
    /\ workers' = [workers EXCEPT ![c][fetches[c].started + 1] =
                      Worker("fetch", Head(tasks[c]), NoResult)]
    /\ tasks' = [tasks EXCEPT ![c] = Tail(@)]
    /\ fetches' = [fetches EXCEPT ![c].started = @ + 1]
    /\ UNCHANGED <<mainVars, gateVars, handleVars, qpc, tasksClosed, queued>>

\* the range loop ends when tasks is closed and empty (main.go:334)
EarlyRangeEnd(c) ==
    /\ qpc[c] = "range"
    /\ tasks[c] = <<>>
    /\ tasksClosed[c]
    /\ qpc' = [qpc EXCEPT ![c] = "wait"]
    /\ UNCHANGED <<mainVars, gateVars, handleVars, tasks, tasksClosed, queued, workers,
                   fetches>>

\* RequestUrl(task) returns (main.go:339)
EarlyFetch(c, k) ==
    /\ workers[c][k].pc = "fetch"
    /\ \E out \in RequestUrl(workers[c][k].task) :
          /\ workers' = [workers EXCEPT ![c][k] =
                            Worker("send", @.task, UrlResult(@.task, out.bytes, out.err))]
          /\ fetches' = IF out.err.isNil THEN fetches
                        ELSE [fetches EXCEPT ![c].failed = Append(@, out.err),
                                             ![c].before = IF fetches[c].failed = <<>>
                                                           THEN fetches[c].started ELSE @]
    /\ UNCHANGED <<mainVars, gateVars, handleVars, qpc, tasks, tasksClosed, queued>>

\* out <- UrlResult{task, result, err}, then the deferred wg.Done()
\* (main.go:340, 337)
EarlySend(c, k) ==
    /\ workers[c][k].pc = "send"
    /\ HasRoom(pipeline[c], Len(req[c].urls))
    /\ pipeline' = [pipeline EXCEPT ![c] = Append(@, workers[c][k].result)]
    /\ workers' = [workers EXCEPT ![c][k] = Worker("exit", "", NoResult)]
    /\ UNCHANGED <<mainVars, gateVars, hpc, results, needToSend, iter, quit, qpc, tasks,
                   tasksClosed, queued, fetches>>

\* wg.Wait() (main.go:344), then QueryUrls returns
EarlyJoin(c) ==
    /\ qpc[c] = "wait"
    /\ \A k \in EarlyIds : workers[c][k].pc \in {"none", "exit"}
    /\ qpc' = [qpc EXCEPT ![c] = "done"]
    /\ UNCHANGED <<mainVars, gateVars, handleVars, tasks, tasksClosed, queued, workers,
                   fetches>>

\* res := <-out (main.go:389-396): an error is noted, and the outcome is
\* appended whether it failed or not
EarlyReceive(c) ==
    /\ hpc[c] = "loop"
    /\ pipeline[c] # <<>>
    /\ LET res == Head(pipeline[c])
           err == IF res.error.isNil THEN results[c].Error ELSE ErrorText(res.error)
       IN  /\ pipeline' = [pipeline EXCEPT ![c] = Tail(@)]
           /\ results' = [results EXCEPT ![c] =
                             ResultToUser(err, Append(results[c].Responses, res))]
           /\ iter' = [iter EXCEPT ![c] = @ + 1]
           /\ hpc' = [hpc EXCEPT ![c] = EarlyLoopPc(req[c].urls, iter[c] + 1)]
    /\ UNCHANGED <<mainVars, gateVars, needToSend, quit, queryVars>>

\* json.Marshal(results), rw.Write(res) (main.go:399-406)
EarlyFinish(c) ==
    /\ hpc[c] = "marshal"
    /\ resp' = [resp EXCEPT ![c] = JsonResponse(Marshal(results[c]))]
    /\ hpc' = [hpc EXCEPT ![c] = "returned"]
    /\ UNCHANGED <<mainVars, limiter, gate, req, connClosed, slots, results, needToSend,
                   iter, quit, pipeline, queryVars>>

NextEarly ==
    \/ \E r \in EarlyRequests : Arrive(1, r)
    \/ ClientCheckEnter(1) \/ ClientCheckLeave(1)
    \/ EarlyStart(1) \/ EarlyReceive(1) \/ EarlyFinish(1)
    \/ EarlyProduce(1) \/ EarlyCloseTasks(1) \/ EarlyDispatch(1)
    \/ EarlyRangeEnd(1) \/ EarlyJoin(1)
    \/ \E k \in EarlyIds : EarlyFetch(1, k) \/ EarlySend(1, k)

\* the early variant serving one request
SpecEarly == InitEarly /\ [][NextEarly]_vars

\* ------------------------------------------------------------- properties

\* the clients inside the wrapped handler: a slot acquired and not released
Inside == {c \in Clients : gate[c] = "admitted"}

\* some worker of client c is inside RequestUrl
Fetching(c) == \E w \in WorkerIds : workers[c][w].pc = "fetch"

\* Handle accepted c's request and has returned
Served(c) == hpc[c] = "returned" /\ InputError(req[c]) = 0

\* how often url occurs in a list of urls
Count(url, list) == Cardinality({k \in 1..Len(list) : list[k] = url})
Range(list) == {list[k] : k \in 1..Len(list)}
RespUrls(rs) == [k \in 1..Len(rs.Responses) |-> rs.Responses[k].url]

\* C1: at most MaxSimultaneousClients requests are inside the wrapped handler
\* at any time, and a request is rejected at the gate only once shutdown has
\* been signalled: until then a request that finds no slot stays at the gate.
C1_AdmissionBound ==
    /\ Cardinality(Inside) <= MaxSimultaneousClients
    /\ \A c \in Clients : gate[c] = "rejected" => Closed(shutdown)

\* every slot is taken by a request that is fetching, and one more request
\* waits at the gate while shutdown is not signalled
C1_Witness ==
    /\ Cardinality(Inside) = MaxSimultaneousClients
    /\ \A c \in Inside : Fetching(c)
    /\ \E c \in Clients : gate[c] = "select"
    /\ shutdown = "open"

\* C2: the ResultToUser of a request is at all times either an error with no
\* responses or no error with successful outcomes only, and so is what is
\* written to the client.
C2_NoPartialSuccess ==
    \A c \in Clients :
        /\ \/ results[c].Error # EmptyString /\ results[c].Responses = NilResponses
           \/ /\ results[c].Error = EmptyString
              /\ \A k \in 1..Len(results[c].Responses) : results[c].Responses[k].error.isNil
        /\ resp[c].kind = "json" =>
              (resp[c].json.Error = EmptyString \/ resp[c].json.Responses = NilResponses)

\* a failure was collected after at least one success, and the answer was sent
C2_Witness ==
    \E c \in Clients :
        /\ Served(c)
        /\ iter[c] >= 1
        /\ resp[c].kind = "json"
        /\ resp[c].json.Error # EmptyString

\* a request all of whose fetches succeeded and whose disconnect, if any, was
\* not seen by Handle
AllSucceeded(c) ==
    /\ Served(c)
    /\ Len(req[c].urls) > 0
    /\ fetches[c].failed = <<>>
    /\ needToSend[c]

\* C3 (amended): when every fetch of a request succeeds, the response has no
\* error and as many entries as the request has urls, and each url occurs in
\* the responses as often as it occurs in the request, each with its body.
C3_AllSuccess ==
    \A c \in Clients :
        AllSucceeded(c) =>
            /\ resp[c].kind = "json"
            /\ resp[c].status = StatusOK
            /\ resp[c].json.Error = EmptyString
            /\ Len(resp[c].json.Responses) = Len(req[c].urls)
            /\ \A u \in Range(req[c].urls) \cup Range(RespUrls(resp[c].json)) :
                  Count(u, RespUrls(resp[c].json)) = Count(u, req[c].urls)
            /\ \A k \in 1..Len(resp[c].json.Responses) :
                  resp[c].json.Responses[k].response = Body(resp[c].json.Responses[k].url)

\* C3 as stated: each url of the request occurs in the responses exactly once
C3_ExactlyOnce ==
    \A c \in Clients :
        AllSucceeded(c) =>
            /\ resp[c].json.Error = EmptyString
            /\ Len(resp[c].json.Responses) = Len(req[c].urls)
            /\ \A u \in Range(req[c].urls) : Count(u, RespUrls(resp[c].json)) = 1

\* an all-success answer of several urls in another order than the request's
C3_Witness ==
    \E c \in Clients :
        /\ AllSucceeded(c)
        /\ Len(req[c].urls) >= 2
        /\ RespUrls(resp[c].json) # req[c].urls

\* a request exactly one of whose fetches failed and whose disconnect, if
\* any, was not seen by Handle
OneFailed(c) ==
    /\ Served(c)
    /\ Len(fetches[c].failed) = 1
    /\ needToSend[c]

\* C4: when exactly one fetch of a request fails, the response is sent with
\* status 200 and carries that fetch's error message and no responses,
\* however many outcomes were collected before the failure.
C4_FailFast ==
    \A c \in Clients :
        OneFailed(c) =>
            resp[c] = JsonResponse(ResultToUser(fetches[c].failed[1].msg, NilResponses))

\* the failure was collected after a success
C4_Witness ==
    \E c \in Clients : OneFailed(c) /\ iter[c] >= 1 /\ resp[c].kind = "json"

\* a request with more than MaxUrlCount urls that reaches the size check
Oversize(c) ==
    /\ req[c].method = "POST" /\ req[c].readable /\ req[c].wellFormed
    /\ Len(req[c].urls) > MaxUrlCount

\* C5: a request with more than MaxUrlCount urls is answered 400, Handle
\* returns before it makes its channels or starts QueryUrls, no fetch is made
\* for it, and the slot it held is released.
C5_OversizeRejected ==
    \A c \in Clients :
        Oversize(c) =>
            /\ fetches[c].started = 0
            /\ qpc[c] = "none"
            /\ hpc[c] \in {"none", "begin", "returned"}
            /\ \A w \in WorkerIds : workers[c][w].pc = "none"
            /\ hpc[c] = "returned" => resp[c] = TextResponse(StatusBadRequest)
            /\ gate[c] = "done" =>
                  /\ hpc[c] = "returned"
                  /\ slots[c] = [acquired |-> 1, released |-> 1]

\* an oversize request was answered 400 and its slot is free again
C5_Witness ==
    \E c \in Clients :
        /\ Oversize(c)
        /\ gate[c] = "done"
        /\ resp[c].status = StatusBadRequest
        /\ limiter = 0

\* C6: whenever Handle has returned after starting QueryUrls, QueryUrls has
\* returned and every worker of the request has exited: none is waiting in
\* its select, fetching or sending.
C6_CleanJoin ==
    \A c \in Clients :
        Served(c) =>
            /\ qpc[c] = "done"
            /\ Spawned(c) = WorkersCount(req[c].urls)
            /\ \A w \in WorkerIds : workers[c][w].pc \in {"none", "exit"}

\* Handle has returned on the disconnect path, with urls left unfetched on
\* the task queue and outcomes left in the pipeline
C6_Witness ==
    \E c \in Clients :
        /\ Served(c)
        /\ ~needToSend[c]
        /\ tasks[c] # <<>>
        /\ pipeline[c] # <<>>

\* C7: once the disconnect case of Handle's select has been taken, quit is
\* closed, Handle is out of its loop, and nothing is or ever gets written to
\* the ResponseWriter.
C7_DisconnectSuppresses ==
    \A c \in Clients :
        ~needToSend[c] =>
            /\ quit[c] = "closed"
            /\ hpc[c] \in {"wait", "returned"}
            /\ resp[c] = NoResponse

\* Handle has returned after a disconnect that it saw with outcomes already
\* collected and others still in the pipeline
C7_Witness ==
    \E c \in Clients :
        /\ hpc[c] = "returned"
        /\ ~needToSend[c]
        /\ iter[c] >= 1
        /\ pipeline[c] # <<>>

\* C8: a request whose select in HandleConnection runs with the shutdown
\* signal raised is rejected with 500, acquires no slot and does not reach
\* the wrapped handler.
C8_RejectAfterShutdown ==
    [][\A c \in Clients :
          (gate[c] = "select" /\ Closed(shutdown) /\ gate'[c] # "select") =>
              /\ gate'[c] = "rejected"
              /\ resp'[c] = TextResponse(StatusInternalServerError)
              /\ slots'[c].acquired = 0
              /\ hpc'[c] = "none"]_vars

\* a request is blocked at the gate: no slot is free and shutdown is not raised
Blocked(c) == gate[c] = "select" /\ ~LimiterHasRoom(limiter) /\ shutdown = "open"

\* C9: under fair scheduling a request blocked at the saturated gate leaves
\* it: it is admitted once a slot is released, or rejected once shutdown is
\* raised.
C9_BlockedLeaves ==
    \A c \in Clients : Blocked(c) ~> (gate[c] \in {"admitted", "rejected", "done"})

\* a request is blocked at the gate behind a request that is being served
C9_Witness ==
    \E c \in Clients :
        /\ Blocked(c)
        /\ \E d \in Clients \ {c} : gate[d] = "admitted" /\ hpc[d] = "loop"

\* C10: the limiter holds one token per request inside the wrapped handler; a
\* request acquires at most one slot and releases it once, when the handler
\* has returned; a request that is waiting or was rejected holds and has held
\* none.
C10_SlotAccounting ==
    /\ limiter = Cardinality(Inside)
    /\ \A c \in Clients :
          /\ gate[c] \in {"idle", "select", "rejected"} =>
                slots[c] = [acquired |-> 0, released |-> 0] /\ hpc[c] = "none"
          /\ gate[c] = "admitted" =>
                slots[c] = [acquired |-> 1, released |-> 0] /\ hpc[c] # "none"
          /\ gate[c] = "done" =>
                slots[c] = [acquired |-> 1, released |-> 1] /\ hpc[c] = "returned"

\* one request released its slot after a disconnect, another was rejected
C10_Witness ==
    \E c, d \in Clients :
        /\ gate[c] = "done"
        /\ ~needToSend[c]
        /\ gate[d] = "rejected"
        /\ limiter = 0

\* C11: once a request's quit channel is closed, no worker of the request
\* draws a task or starts a fetch: a worker that runs its select then exits.
C11_NoDispatchAfterCancel ==
    [][\A c \in Clients :
          Closed(quit[c]) =>
              /\ fetches'[c].started = fetches[c].started
              /\ tasks'[c] = tasks[c]
              /\ \A w \in WorkerIds :
                    (workers[c][w].pc = "select" /\ workers'[c][w] # workers[c][w]) =>
                        workers'[c][w].pc = "exit"]_vars

\* the fetches of c started since its first failed fetch returned
OverFetch(c) == fetches[c].started - fetches[c].before

\* C12: when exactly one fetch of a request fails, at most workerCount =
\* min(MaxSimultaneousUrlRequests, len(urls)) other fetches are started from
\* the moment the failing fetch returns.
C12_BoundedOverFetch ==
    \A c \in Clients :
        Len(fetches[c].failed) = 1 =>
            OverFetch(c) <= (IF Len(req[c].urls) < MaxSimultaneousUrlRequests
                             THEN Len(req[c].urls) ELSE MaxSimultaneousUrlRequests)

\* C13 as stated: once shutdown is raised, the quit channel of every request
\* in its collection loop is closed in the end.
C13_ShutdownReachesRequests ==
    \A c \in Clients : (Closed(shutdown) /\ hpc[c] = "loop") ~> Closed(quit[c])

\* C13, amended: shutdown is read at the gate only.  The quit channel of a
\* request is closed by its own Handle alone, on a client disconnect or on a
\* failed fetch collected; a request in flight when shutdown is raised keeps
\* its quit channel open unless one of the two happens.
C13_QuitOnlyByHandle ==
    \A c \in Clients :
        Closed(quit[c]) => (~needToSend[c] \/ results[c].Error # EmptyString)

C13_Witness ==
    \E c \in Clients :
        /\ Closed(shutdown)
        /\ hpc[c] = "loop"
        /\ Fetching(c)
        /\ quit[c] = "open"

\* Handle accepted c's request and started QueryUrls
Started(c) == hpc[c] \in {"loop", "wait", "returned"} /\ InputError(req[c]) = 0

\* the workers of c inside RequestUrl
InFlight(c) == {w \in WorkerIds : workers[c][w].pc = "fetch"}

\* the smaller of MaxSimultaneousUrlRequests and the number of urls
FanOut(urls) ==
    IF MaxSimultaneousUrlRequests <= Len(urls) THEN MaxSimultaneousUrlRequests ELSE Len(urls)

\* C14: at most min(MaxSimultaneousUrlRequests, len(urls)) fetches of one
\* request are in flight at a time; exactly that many workers are spawned,
\* and every queued url is drawn by at most one worker (the urls drawn and
\* the urls still queued add up to the urls put on the queue).
C14_FanOutBound ==
    \A c \in Clients :
        Started(c) =>
            /\ Cardinality(InFlight(c)) <= FanOut(req[c].urls)
            /\ Spawned(c) <= FanOut(req[c].urls)
            /\ qpc[c] # "spawn" => Spawned(c) = FanOut(req[c].urls)
            /\ fetches[c].started + Len(tasks[c]) = queued[c]
            /\ queued[c] <= Len(req[c].urls)

C14_Witness ==
    \E c \in Clients :
        /\ Started(c)
        /\ Len(req[c].urls) > MaxSimultaneousUrlRequests
        /\ Cardinality(InFlight(c)) = MaxSimultaneousUrlRequests
        /\ tasks[c] # <<>>

\* C15: under fair scheduling, with every fetch coming to an end, a Handle
\* that started QueryUrls returns, with QueryUrls and all its workers gone,
\* whether the fetches succeed, one fails or the client disconnects.
C15_RequestTerminates ==
    \A c \in Clients :
        (Started(c) /\ hpc[c] # "returned")
            ~> (hpc[c] = "returned" /\ qpc[c] = "done" /\ WorkersDone(c))

\* the coordinator has stopped collecting while a worker still holds an
\* outcome to send and another url is still queued
C15_Witness ==
    \E c \in Clients :
        /\ hpc[c] = "wait"
        /\ Closed(quit[c])
        /\ \E w \in WorkerIds : workers[c][w].pc = "send"
        /\ tasks[c] # <<>>

\* C16: no channel is closed twice: the quit channel of a request is closed
\* at most once, whatever is ready in Handle's select, and so is the
\* shutdown channel.
C16_ClosedOnce ==
    /\ shutdown # "panic"
    /\ \A c \in Clients : quit[c] # "panic"

\* quit was closed while the disconnect notification and a failed outcome
\* are both still pending, and shutdown has been closed as well
C16_Witness ==
    \E c \in Clients :
        /\ quit[c] = "closed"
        /\ connClosed[c]
        /\ \E k \in 1..Len(pipeline[c]) : ~pipeline[c][k].error.isNil
        /\ shutdown = "closed"

\* the outcomes the workers of c have sent to the result channel so far:
\* every fetch started whose worker is neither fetching nor about to send
Sent(c) ==
    fetches[c].started
        - Cardinality({w \in WorkerIds : workers[c][w].pc \in {"fetch", "send"}})

\* C17: no more than len(urls) outcomes are ever sent to the result channel
\* and no more than len(urls) urls are ever put on the task queue, so a
\* worker about to send and QueryUrls about to queue a url always find room,
\* also after Handle has left its loop.
C17_SendsNeverBlock ==
    \A c \in Clients :
        Started(c) =>
            /\ Sent(c) <= Len(req[c].urls)
            /\ queued[c] <= Len(req[c].urls)
            /\ Len(pipeline[c]) <= Sent(c)
            /\ Len(tasks[c]) <= queued[c]
            /\ \A w \in WorkerIds :
                  workers[c][w].pc = "send" =>
                      HasRoom(pipeline[c], PipelineCap(req[c].urls))
            /\ qpc[c] = "fill" => HasRoom(tasks[c], TasksCap(req[c].urls))

\* Handle left its loop on a disconnect or a failure with nothing collected,
\* and every outcome of a list of several urls sits in the result channel
C17_Witness ==
    \E c \in Clients :
        /\ hpc[c] = "wait"
        /\ Closed(quit[c])
        /\ Len(req[c].urls) > MaxSimultaneousUrlRequests
        /\ Len(pipeline[c]) = Len(req[c].urls) - Len(results[c].Responses)
        /\ Len(pipeline[c]) >= MaxSimultaneousUrlRequests

\* C18: for an accepted request with no urls, no worker is spawned, no fetch
\* is started, the collection loop is never entered (so no disconnect is
\* seen and quit stays open), QueryUrls goes on to return, and what Handle
\* writes when it returns is the json of an empty Error and nil Responses.
C18_EmptyBatch ==
    \A c \in Clients :
        (Started(c) /\ req[c].urls = <<>>) =>
            /\ hpc[c] \in {"wait", "returned"}
            /\ Spawned(c) = 0
            /\ fetches[c].started = 0
            /\ iter[c] = 0
            /\ quit[c] = "open"
            /\ needToSend[c]
            /\ qpc[c] \in {"close", "wait", "done"}
            /\ hpc[c] = "returned" =>
                  /\ qpc[c] = "done"
                  /\ resp[c] = JsonResponse(ResultToUser(EmptyString, NilResponses))

C18_Witness ==
    \E c \in Clients :
        /\ Started(c)
        /\ req[c].urls = <<>>
        /\ hpc[c] = "returned"
        /\ resp[c].kind = "json"

\* C19: in the early variant no more than MaxSimultaneousUrlRequests urls of
\* one request are inside RequestUrl at the same time.
C19_EarlyFanOutBound ==
    \A c \in Clients :
        Cardinality({k \in EarlyIds : workers[c][k].pc = "fetch"})
            <= MaxSimultaneousUrlRequests

====
